---- MODULE Spec2Model ----
(***************************************************************************)
(* Glossary API (src/main_app.py): the GlossaryDatabase record store, its  *)
(* JSON backing document and the FastAPI handlers layered on top of it.    *)
(*                                                                         *)
(* Python values are modelled as follows.                                  *)
(*   str            a sequence of one-character strings                    *)
(*   list[str]      a sequence of such sequences                           *)
(*   Optional[x]    None == <<>>, Some(x) == <<x>>                         *)
(*   dict           a function from keys (TLA+ strings) to values          *)
(*   a JSON body    a function from the keys that are present in the body  *)
(*                  to Optional values (None is an explicit JSON null)     *)
(*   datetime.now() the integer reading of a clock                         *)
(***************************************************************************)
EXTENDS Integers, Sequences, FiniteSets, TLC

VARIABLES
    up,          \* the lifespan hook has constructed db (the process serves)
    glossary,    \* db.data["glossary"]
    next_id,     \* db.next_id
    disk,        \* the file at DATA_FILE
    now,         \* the last reading of the wall clock
    req,         \* the request being answered
    ret,         \* what the GlossaryDatabase method returned (or that it raised)
    resp,        \* the HTTP response: status and JSON body
    issued_life, \* history: ids loaded or issued by create since the last lifespan start
    issued_ever  \* history: ids issued by create since the beginning

vars == <<up, glossary, next_id, disk, now, req, ret, resp, issued_life, issued_ever>>

\* Bound of the model: the clock readings 0..MaxClock. Every create and every
\* update reads the clock, so MaxClock also bounds the number of mutations.
MaxClock == 2
\* Bound of the model: the longest collection listed in SpecList.
MaxListLen == 25
\* Bound of the model: the longest keyword searched in SpecSearch.
MaxKeywordLen == 2

\* Field(min_length=..., max_length=...) of the pydantic models.
TitleMinLen == 1
TitleMaxLen == 100
DefinitionMinLen == 10
DefinitionMaxLen == 2000
\* Query(100, ge=1, le=1000) of get_all_terms.
LimitMin == 1
LimitMax == 1000

----------------------------------------------------------------------------
(* Python values *)

None == <<>>
Some(x) == <<x>>
IsNone(o) == o = <<>>
Value(o) == o[1]

Min(a, b) == IF a < b THEN a ELSE b
Max(a, b) == IF a > b THEN a ELSE b

\* max(term["id"] for term in ...)
RECURSIVE MaxOf(_)
MaxOf(S) ==
    IF S = {} THEN 0
    ELSE LET x == CHOOSE y \in S : TRUE
         IN  Max(x, MaxOf(S \ {x}))

\* The ASCII letters in their two cases.
UpperLetters == <<"A", "B", "C", "D", "E", "F", "G", "H", "I", "J", "K", "L", "M",
                  "N", "O", "P", "Q", "R", "S", "T", "U", "V", "W", "X", "Y", "Z">>
LowerLetters == <<"a", "b", "c", "d", "e", "f", "g", "h", "i", "j", "k", "l", "m",
                  "n", "o", "p", "q", "r", "s", "t", "u", "v", "w", "x", "y", "z">>

\* str.lower() on one character: an upper-case letter becomes its lower-case
\* letter, every other character is unchanged.
LowerChar(c) ==
    IF \E i \in 1..Len(UpperLetters) : UpperLetters[i] = c
    THEN LowerLetters[CHOOSE i \in 1..Len(UpperLetters) : UpperLetters[i] = c]
    ELSE c

\* A search that compares the texts as they are.
lower_AsIs(s) == s

lower(s) == [i \in 1..Len(s) |-> LowerChar(s[i])]

\* Python's `needle in haystack` on strings.
Contains(haystack, needle) ==
    \E i \in 0..(Len(haystack) - Len(needle)) :
        \A j \in 1..Len(needle) : haystack[i + j] = needle[j]

\* Python's bool(x) for a str taken with dict.get: None and "" are falsy.
Truthy(o) == ~IsNone(o) /\ Value(o) # <<>>

\* dict.get(key) -> Optional
DictGet(d, key) == IF key \in DOMAIN d THEN Some(d[key]) ELSE None

\* Decimal digits of a natural number, as text.
DigitChars == <<"0", "1", "2", "3", "4", "5", "6", "7", "8", "9">>

RECURSIVE Dec(_)
Dec(n) ==
    IF n < 10 THEN <<DigitChars[n + 1]>>
    ELSE Dec(n \div 10) \o <<DigitChars[(n % 10) + 1]>>

DigitValue(c) == (CHOOSE i \in 1..10 : DigitChars[i] = c) - 1

RECURSIVE ParseDec(_)
ParseDec(s) ==
    IF Len(s) = 1 THEN DigitValue(s[1])
    ELSE 10 * ParseDec(SubSeq(s, 1, Len(s) - 1)) + DigitValue(s[Len(s)])

\* datetime.isoformat(): the clock reading as text.
isoformat(t) == <<"T">> \o Dec(t)

----------------------------------------------------------------------------
(* json.dump / json.load. The document is modelled as the tree of its       *)
(* tokens: strings and numbers as their text, arrays as sequences and        *)
(* objects as sequences of <<key, value>> members in the dict's key order;  *)
(* the whitespace of indent=2 is not modelled.                              *)

Quote == "\""
Backslash == "\\"

\* A json.dump that wrote the characters of a string as they are.
EscapeChars_Unescaped(s) == s

\* ensure_ascii=False: only the quote and the backslash are escaped.
RECURSIVE EscapeChars(_)
EscapeChars(s) ==
    IF s = <<>> THEN <<>>
    ELSE (IF Head(s) \in {Quote, Backslash} THEN <<Backslash, Head(s)>> ELSE <<Head(s)>>)
         \o EscapeChars(Tail(s))

RECURSIVE UnescapeChars(_)
UnescapeChars(s) ==
    IF s = <<>> THEN <<>>
    ELSE IF Head(s) = Backslash /\ Len(s) >= 2
         THEN <<s[2]>> \o UnescapeChars(SubSeq(s, 3, Len(s)))
         ELSE <<Head(s)>> \o UnescapeChars(Tail(s))

JsonString(s) == [type |-> "string", text |-> <<Quote>> \o EscapeChars(s) \o <<Quote>>]
JsonNumber(n) == [type |-> "number", text |-> Dec(n)]
JsonArray(items) == [type |-> "array", items |-> items]
JsonObject(members) == [type |-> "object", members |-> members]

ListKeys == {"examples", "related_terms"}
\* The keys of a term in the order create inserts them.
KeyOrder == <<"id", "title", "definition", "category", "examples", "related_terms",
              "source", "created_at", "updated_at">>

\* The keys of dict d in insertion order. A key assigned by update to a term
\* that lacked it would be appended; every term of the model that lacks a key
\* lacks only "category", whose place does not affect the loaded dict.
KeysOf(d) == SelectSeq(KeyOrder, LAMBDA k : k \in DOMAIN d)

DumpValue(key, v) ==
    IF key = "id" THEN JsonNumber(v)
    ELSE IF key \in ListKeys
         THEN JsonArray([i \in 1..Len(v) |-> JsonString(v[i])])
         ELSE JsonString(v)

DumpTerm(term) ==
    LET ks == KeysOf(term)
    IN  JsonObject([i \in 1..Len(ks) |-> <<ks[i], DumpValue(ks[i], term[ks[i]])>>])

\* json.dump(self.data, f, ensure_ascii=False, indent=2)
json_dump(data) ==
    JsonObject(<< <<"glossary",
                    JsonArray([i \in 1..Len(data) |-> DumpTerm(data[i])])>> >>)

LoadString(j) == UnescapeChars(SubSeq(j.text, 2, Len(j.text) - 1))

LoadValue(j) ==
    CASE j.type = "number" -> ParseDec(j.text)
      [] j.type = "string" -> LoadString(j)
      [] j.type = "array" -> [i \in 1..Len(j.items) |-> LoadString(j.items[i])]

\* A JSON object becomes a dict; of a repeated key the last member wins.
LoadObject(j) ==
    LET ms == j.members
        keys == {ms[i][1] : i \in 1..Len(ms)}
        last(k) == CHOOSE i \in 1..Len(ms) :
                       /\ ms[i][1] = k
                       /\ \A i2 \in 1..Len(ms) : ms[i2][1] = k => i2 <= i
    IN  [k \in keys |-> LoadValue(ms[last(k)][2])]

\* json.load(f), then ["glossary"]
json_load(root) ==
    LET arr == root.members[1][2]
    IN  [i \in 1..Len(arr.items) |-> LoadObject(arr.items[i])]

\* The file: absent, a complete JSON document, or the remains of a write that
\* failed after open(..., 'w') had truncated the file.
NoFile == [kind |-> "absent"]
TornFile == [kind |-> "torn"]
JsonFile(data) == [kind |-> "json", root |-> json_dump(data)]

----------------------------------------------------------------------------
(* GlossaryDatabase *)

Ids(data) == {data[i]["id"] : i \in 1..Len(data)}

\* What the handler's call of a GlossaryDatabase method produced: a return
\* value or an exception; NotCalled when validation rejected the request first.
Returned(v) == [called |-> TRUE, raised |-> FALSE, value |-> v]
Raised(exc) == [called |-> TRUE, raised |-> TRUE, exc |-> exc]
NotCalled == [called |-> FALSE, raised |-> FALSE]

\* How a write of the file can end: open() and json.dump succeed; open()
\* fails and the file is as before; json.dump (or the flush at close) fails
\* after open(..., 'w') truncated the file.
IOOutcomes == {"ok", "open_failed", "write_failed"}

_load_data(file) ==
    IF file.kind = "absent" THEN <<>> ELSE json_load(file.root)

_save_data(data, io) ==
    disk' = CASE io = "ok" -> JsonFile(data)
              [] io = "open_failed" -> disk
              [] io = "write_failed" -> TornFile

_get_next_id(data) ==
    IF data = <<>> THEN 1 ELSE MaxOf(Ids(data)) + 1

get_all(data) == data

\* The position of the first term with this id, or 0.
IndexOf(data, term_id) ==
    IF term_id \in Ids(data)
    THEN CHOOSE i \in 1..Len(data) :
             /\ data[i]["id"] = term_id
             /\ \A j \in 1..(i - 1) : data[j]["id"] # term_id
    ELSE 0

get_by_id(data, term_id) ==
    IF IndexOf(data, term_id) = 0 THEN None ELSE Some(data[IndexOf(data, term_id)])

Matches(term, keyword_lower) ==
    \/ Contains(lower(term["title"]), keyword_lower)
    \/ Contains(lower(term["definition"]), keyword_lower)
    \/ /\ Truthy(DictGet(term, "category"))
       /\ Contains(lower(term["category"]), keyword_lower)

search(data, keyword) ==
    SelectSeq(data, LAMBDA term : Matches(term, lower(keyword)))

\* `x or default` on an Optional field of the request model.
OrElse(o, default) == IF IsNone(o) \/ Value(o) = <<>> THEN default ELSE Value(o)

sGeneral == <<"G", "e", "n", "e", "r", "a", "l">>
sUnknown == <<"U", "n", "k", "n", "o", "w", "n">>

\* The fields GlossaryTermBase and GlossaryTermUpdate declare; pydantic ignores
\* every other key of a body.
ModelFields == {"title", "definition", "category", "examples", "related_terms", "source"}

\* A request model that keeps the keys it does not declare (extra="allow").
GlossaryTermUpdate_KeepsExtra(body) == body

\* GlossaryTermUpdate(**body).model_dump(exclude_unset=True): the declared
\* fields the body sets, an explicit null included.
GlossaryTermUpdate(body) == [k \in DOMAIN body \cap ModelFields |-> body[k]]

\* GlossaryTermCreate(**body): the validated request model, defaults applied.
GlossaryTermCreate(body) ==
    [title |-> Value(body["title"]),
     definition |-> Value(body["definition"]),
     category |-> IF "category" \in DOMAIN body THEN Value(body["category"]) ELSE sGeneral,
     examples |-> IF "examples" \in DOMAIN body THEN body["examples"] ELSE None,
     related_terms |-> IF "related_terms" \in DOMAIN body THEN body["related_terms"] ELSE None,
     source |-> IF "source" \in DOMAIN body THEN body["source"] ELSE None]

NewTerm(term_data, id, t1, t2) ==
    [id |-> id,
     title |-> term_data.title,
     definition |-> term_data.definition,
     category |-> term_data.category,
     examples |-> OrElse(term_data.examples, <<>>),
     related_terms |-> OrElse(term_data.related_terms, <<>>),
     source |-> OrElse(term_data.source, <<>>),
     created_at |-> isoformat(t1),
     updated_at |-> isoformat(t2)]

\* A create that takes the id from the current contents (max id + 1) instead
\* of the counter.
create_IdFromContents(term_data, t1, t2, io) ==
    LET new_term == NewTerm(term_data, _get_next_id(glossary), t1, t2)
    IN  /\ glossary' = Append(glossary, new_term)
        /\ next_id' = new_term["id"] + 1
        /\ now' = t2
        /\ _save_data(glossary', io)
        /\ ret' = IF io = "ok" THEN Returned(new_term) ELSE Raised("OSError")

\* t1, t2: the two readings of datetime.now().
create(term_data, t1, t2, io) ==
    LET new_term == NewTerm(term_data, next_id, t1, t2)
    IN  /\ glossary' = Append(glossary, new_term)
        /\ next_id' = next_id + 1
        /\ now' = t2
        /\ _save_data(glossary', io)
        /\ ret' = IF io = "ok" THEN Returned(new_term) ELSE Raised("OSError")

\* An update that extends a list field with the supplied list.
MergeUpdate_ExtendsLists(term, update_data, t) ==
    LET set == {k \in DOMAIN update_data : ~IsNone(update_data[k])}
    IN  [k \in DOMAIN term \cup set \cup {"updated_at"} |->
            IF k = "updated_at" THEN isoformat(t)
            ELSE IF k \in set
                 THEN IF k \in ListKeys /\ k \in DOMAIN term
                      THEN term[k] \o Value(update_data[k])
                      ELSE Value(update_data[k])
            ELSE term[k]]

\* for key, value in update_data.items(): if value is not None: term[key] = value
MergeUpdate(term, update_data, t) ==
    LET set == {k \in DOMAIN update_data : ~IsNone(update_data[k])}
    IN  [k \in DOMAIN term \cup set \cup {"updated_at"} |->
            IF k = "updated_at" THEN isoformat(t)
            ELSE IF k \in set THEN Value(update_data[k])
            ELSE term[k]]

\* update_data: term_data.model_dump(exclude_unset=True), the fields of the body.
update(term_id, update_data, t, io) ==
    LET i == IndexOf(glossary, term_id)
    IN  IF i = 0
        THEN /\ ret' = Returned(None)
             /\ UNCHANGED <<glossary, disk, now>>
        ELSE /\ t <= MaxClock
             /\ glossary' = [glossary EXCEPT ![i] = MergeUpdate(glossary[i], update_data, t)]
             /\ now' = t
             /\ _save_data(glossary', io)
             /\ ret' = IF io = "ok" THEN Returned(Some(glossary'[i])) ELSE Raised("OSError")

\* A pop that drops the tail with the element.
Pop_DropsTail(seq, i) == SubSeq(seq, 1, i - 1)

\* list.pop(i)
Pop(seq, i) == SubSeq(seq, 1, i - 1) \o SubSeq(seq, i + 1, Len(seq))

delete(term_id, io) ==
    LET i == IndexOf(glossary, term_id)
    IN  IF i = 0
        THEN /\ ret' = Returned(FALSE)
             /\ UNCHANGED <<glossary, disk>>
        ELSE /\ glossary' = Pop(glossary, i)
             /\ _save_data(glossary', io)
             /\ ret' = IF io = "ok" THEN Returned(TRUE) ELSE Raised("OSError")

----------------------------------------------------------------------------
(* Request validation (pydantic) and responses (FastAPI) *)

LenBetween(s, lo, hi) == lo <= Len(s) /\ Len(s) <= hi

\* GlossaryTermCreate accepts the body: title and definition are required
\* strings within their length bounds, category is a string when present.
ValidCreate(body) ==
    /\ "title" \in DOMAIN body
    /\ ~IsNone(body["title"])
    /\ LenBetween(Value(body["title"]), TitleMinLen, TitleMaxLen)
    /\ "definition" \in DOMAIN body
    /\ ~IsNone(body["definition"])
    /\ LenBetween(Value(body["definition"]), DefinitionMinLen, DefinitionMaxLen)
    /\ "category" \in DOMAIN body => ~IsNone(body["category"])

\* GlossaryTermUpdate accepts the body: every field is Optional, a title or
\* definition that is not null is within its length bounds.
ValidUpdate(body) ==
    /\ ("title" \in DOMAIN body /\ ~IsNone(body["title"]))
          => LenBetween(Value(body["title"]), TitleMinLen, TitleMaxLen)
    /\ ("definition" \in DOMAIN body /\ ~IsNone(body["definition"]))
          => LenBetween(Value(body["definition"]), DefinitionMinLen, DefinitionMaxLen)

\* skip: int = Query(0, ge=0), limit: int = Query(100, ge=1, le=1000)
ValidPage(skip, limit) == skip >= 0 /\ limit >= LimitMin /\ limit <= LimitMax

GlossaryResponse(success, message, data) ==
    [success |-> success, message |-> message, data |-> data]

JSONResponse(status, body) == [status |-> status, media |-> "application/json", body |-> body]

\* FastAPI's handler of HTTPException: the body is {"detail": detail}.
HTTPException(status, detail) == JSONResponse(status, [detail |-> detail])

\* FastAPI's handler of RequestValidationError.
ValidationError == JSONResponse(422, [detail |-> <<"validation error">>])

\* Starlette's ServerErrorMiddleware, for an exception no handler catches.
ServerError == [status |-> 500, media |-> "text/plain", body |-> [text |-> "Internal Server Error"]]

NoResponse == [status |-> 0, media |-> "", body |-> [text |-> ""]]

NotFound(term_id) == HTTPException(404, <<"term with id", term_id, "not found">>)

\* A slice that takes the limit as its end: all_terms[skip:limit].
Slice_EndIsLimit(seq, skip, limit) ==
    [i \in 1..Max(0, Min(limit, Len(seq)) - Min(skip, Len(seq))) |-> seq[skip + i]]

\* all_terms[skip:skip + limit]
Slice(seq, skip, limit) ==
    [i \in 1..Max(0, Min(skip + limit, Len(seq)) - Min(skip, Len(seq))) |-> seq[skip + i]]

----------------------------------------------------------------------------
(* The lifespan hook and the request handlers *)

\* db = GlossaryDatabase(): __init__ loads the file and computes next_id.
\* json.load raises on a file that is not a JSON document; the application
\* then fails to start and db stays None.
lifespan ==
    /\ req' = [op |-> "lifespan"]
    /\ resp' = NoResponse
    /\ IF disk.kind = "torn"
       THEN /\ up' = FALSE
            /\ glossary' = <<>>
            /\ next_id' = 0
            /\ ret' = Raised("JSONDecodeError")
       ELSE /\ up' = TRUE
            /\ glossary' = _load_data(disk)
            /\ next_id' = _get_next_id(glossary')
            /\ ret' = Returned(None)
    /\ issued_life' = Ids(glossary')
    /\ UNCHANGED <<disk, now, issued_ever>>

get_all_terms(skip, limit) ==
    /\ up
    /\ req' = [op |-> "get_all_terms", skip |-> skip, limit |-> limit]
    /\ IF ~ValidPage(skip, limit)
       THEN /\ ret' = NotCalled
            /\ resp' = ValidationError
       ELSE LET all_terms == get_all(glossary)
                paginated_terms == Slice(all_terms, skip, limit)
            IN  /\ ret' = Returned(all_terms)
                /\ resp' = JSONResponse(200, GlossaryResponse(TRUE,
                              <<"got", Len(paginated_terms), "terms of", Len(all_terms)>>,
                              [total |-> Len(all_terms), skip |-> skip, limit |-> limit,
                               items |-> paginated_terms]))
    /\ UNCHANGED <<up, glossary, next_id, disk, now, issued_life, issued_ever>>

get_term(term_id) ==
    /\ up
    /\ req' = [op |-> "get_term", term_id |-> term_id]
    /\ ret' = Returned(get_by_id(glossary, term_id))
    /\ resp' = IF IsNone(ret'.value)
               THEN NotFound(term_id)
               ELSE JSONResponse(200, GlossaryResponse(TRUE, <<"term found">>, Value(ret'.value)))
    /\ UNCHANGED <<up, glossary, next_id, disk, now, issued_life, issued_ever>>

search_terms(keyword) ==
    /\ up
    /\ req' = [op |-> "search_terms", keyword |-> keyword]
    /\ ret' = Returned(search(glossary, keyword))
    /\ resp' = JSONResponse(200, GlossaryResponse(TRUE,
                  <<"found", Len(ret'.value), "terms">>, ret'.value))
    /\ UNCHANGED <<up, glossary, next_id, disk, now, issued_life, issued_ever>>

\* Requests are answered one after another and each one that reads the clock
\* reads it later than the one before (now + 1). dt: how far the clock moved
\* between the two datetime.now() of create.
create_term(body, dt, io) ==
    /\ up
    /\ req' = [op |-> "create_term", body |-> body]
    /\ IF ~ValidCreate(body)
       THEN /\ ret' = NotCalled
            /\ resp' = ValidationError
            /\ UNCHANGED <<glossary, next_id, disk, now, issued_life, issued_ever>>
       ELSE /\ now + 1 + dt <= MaxClock
            /\ create(GlossaryTermCreate(body), now + 1, now + 1 + dt, io)
            /\ resp' = IF ret'.raised
                       THEN ServerError
                       ELSE JSONResponse(201, GlossaryResponse(TRUE, <<"term added">>, ret'.value))
            /\ issued_life' = issued_life \cup {glossary'[Len(glossary')]["id"]}
            /\ issued_ever' = issued_ever \cup {glossary'[Len(glossary')]["id"]}
    /\ UNCHANGED up

update_term(term_id, body, io) ==
    /\ up
    /\ req' = [op |-> "update_term", term_id |-> term_id, body |-> body]
    /\ IF ~ValidUpdate(body)
       THEN /\ ret' = NotCalled
            /\ resp' = ValidationError
            /\ UNCHANGED <<glossary, disk, now>>
       ELSE /\ update(term_id, GlossaryTermUpdate(body), now + 1, io)
            /\ resp' = IF ret'.raised THEN ServerError
                       ELSE IF IsNone(ret'.value) THEN NotFound(term_id)
                       ELSE JSONResponse(200, GlossaryResponse(TRUE, <<"term updated">>,
                                                               Value(ret'.value)))
    /\ UNCHANGED <<up, next_id, issued_life, issued_ever>>

delete_term(term_id, io) ==
    /\ up
    /\ req' = [op |-> "delete_term", term_id |-> term_id]
    /\ delete(term_id, io)
    /\ resp' = IF ret'.raised THEN ServerError
               ELSE IF ~ret'.value THEN NotFound(term_id)
               ELSE JSONResponse(200, GlossaryResponse(TRUE, <<"term deleted">>,
                                                       [deleted_id |-> term_id]))
    /\ UNCHANGED <<up, next_id, now, issued_life, issued_ever>>

\* categories[category] = categories.get(category, 0) + 1
CategoryOf(term) == IF "category" \in DOMAIN term THEN term["category"] ELSE sUnknown

get_statistics ==
    /\ up
    /\ req' = [op |-> "get_statistics"]
    /\ LET all_terms == get_all(glossary)
           names == {CategoryOf(all_terms[i]) : i \in 1..Len(all_terms)}
           categories == [c \in names |->
               Cardinality({i \in 1..Len(all_terms) : CategoryOf(all_terms[i]) = c})]
       IN  /\ ret' = Returned(all_terms)
           /\ resp' = JSONResponse(200, GlossaryResponse(TRUE, <<"statistics">>,
                         [total_terms |-> Len(all_terms), categories |-> categories,
                          categories_count |-> Cardinality(names)]))
    /\ UNCHANGED <<up, glossary, next_id, disk, now, issued_life, issued_ever>>

----------------------------------------------------------------------------
(* Inputs *)

sOracle == <<"O", "r", "a", "c", "l", "e">>
sQuoted == <<"a", Backslash, Quote, "B">>
sFeed == <<"A", " ", "d", "a", "t", "a", " ", "f", "e", "e", "d">>
sOffChain == <<"O", "f", "f", "-", "c", "h", "a", "i", "n", " ", "d", "a", "t", "a">>
sShort == <<"S", "h", "o", "r", "t">>
sDev == <<"D", "e", "v">>
sWiki == <<"w", "i", "k", "i">>

bOracle == [title |-> Some(sOracle), definition |-> Some(sFeed)]
bQuoted == [title |-> Some(sQuoted), definition |-> Some(sOffChain), category |-> Some(sDev),
            examples |-> Some(<<sQuoted, sDev>>), related_terms |-> Some(<<sOracle>>),
            source |-> Some(sWiki)]
bShortDefinition == [title |-> Some(sShort), definition |-> Some(sShort)]

\* A term an earlier run of the service created and saved.
SeedTerm(id, body) == NewTerm(GlossaryTermCreate(body), id, 0, 0)

SeedFiles == {NoFile, JsonFile(<<SeedTerm(1, bQuoted)>>)}

CreateBodies == {bOracle, bQuoted, bShortDefinition}

uEmpty == << >>
uDefinition == [definition |-> Some(sFeed)]
uNullTitle == [title |-> None, examples |-> Some(<<>>)]
uEmptyTitle == [title |-> Some(<<>>)]

UpdateBodies == {uDefinition, uNullTitle}

\* The ids requests name: the first two create assigns, and one that never exists.
NoSuchId == 99999
RequestIds == {1, 2, NoSuchId}

Skips == {0, 1}
Limits == {1}
Keywords == {<<"o", "R">>}

----------------------------------------------------------------------------
(* Specifications *)

Init ==
    /\ disk \in SeedFiles
    /\ up = TRUE
    /\ glossary = _load_data(disk)
    /\ next_id = _get_next_id(glossary)
    /\ now = 0
    /\ req = [op |-> "lifespan"]
    /\ ret = Returned(None)
    /\ resp = NoResponse
    /\ issued_life = Ids(glossary)
    /\ issued_ever = {}

Reads ==
    \/ \E skip \in Skips, limit \in Limits : get_all_terms(skip, limit)
    \/ \E term_id \in RequestIds : get_term(term_id)
    \/ \E keyword \in Keywords : search_terms(keyword)
    \/ get_statistics

Writes(IO) ==
    \/ \E term_id \in RequestIds, io \in IO : delete_term(term_id, io)
    \/ \E term_id \in RequestIds, body \in UpdateBodies, io \in IO : update_term(term_id, body, io)
    \/ \E body \in CreateBodies, dt \in {0, 1}, io \in IO : create_term(body, dt, io)

\* The service with a file system whose writes can fail.
Next == lifespan \/ Writes(IOOutcomes) \/ Reads

Spec == Init /\ [][Next]_vars

\* The service with a file system whose writes all succeed.
NextReliable == lifespan \/ Writes({"ok"}) \/ Reads

SpecReliable == Init /\ [][NextReliable]_vars

\* The store as InitStore(data) finds it: started from a file holding data,
\* with the clock at reading t.
InitStore(data, t) ==
    /\ disk = JsonFile(data)
    /\ up = TRUE
    /\ glossary = _load_data(disk)
    /\ next_id = _get_next_id(glossary)
    /\ now = t
    /\ req = [op |-> "lifespan"]
    /\ ret = Returned(None)
    /\ resp = NoResponse
    /\ issued_life = Ids(glossary)
    /\ issued_ever = {}

\* A term of a file written by hand, without the "category" key.
WithoutCategory(term) == [k \in DOMAIN term \ {"category"} |-> term[k]]

(* SpecUpdate: one update_term, of every kind of body, on stored collections. *)

sSeven == <<"7">>

uTitle == [title |-> Some(sOracle)]
uNullAll == [title |-> None, definition |-> None, category |-> None, examples |-> None,
             related_terms |-> None, source |-> None]
uEmptyLists == [examples |-> Some(<<>>), related_terms |-> Some(<<>>)]
uLists == [examples |-> Some(<<sWiki>>), related_terms |-> Some(<<sDev, sOracle>>)]
uEmptyStrings == [category |-> Some(<<>>), source |-> Some(<<>>)]
uNullCategory == [category |-> None, source |-> Some(sWiki)]
uCategory == [category |-> Some(sDev)]
uAll == [title |-> Some(sShort), definition |-> Some(sFeed), category |-> Some(sWiki),
         examples |-> Some(<<sOracle, sOracle>>), related_terms |-> Some(<<sQuoted>>),
         source |-> Some(sDev)]
uUndeclared == [id |-> Some(7), created_at |-> Some(sSeven), title |-> Some(sShort)]
uShortDefinition == [definition |-> Some(sShort), category |-> Some(sDev)]

RichUpdateBodies ==
    {uEmpty, uTitle, uDefinition, uNullTitle, uNullAll, uEmptyLists, uLists, uEmptyStrings,
     uNullCategory, uCategory, uAll, uUndeclared, uEmptyTitle, uShortDefinition}

UpdateCollections ==
    {<<SeedTerm(1, bQuoted)>>,
     <<SeedTerm(1, bQuoted), SeedTerm(2, bOracle)>>,
     <<SeedTerm(1, bOracle), SeedTerm(2, bQuoted)>>,
     <<WithoutCategory(SeedTerm(1, bOracle)), SeedTerm(2, bQuoted), SeedTerm(4, bOracle)>>}

\* The clock is at its last reading but one: each behaviour makes one update.
InitUpdate == \E data \in UpdateCollections : InitStore(data, MaxClock - 1)

NextUpdate ==
    \E term_id \in RequestIds, body \in RichUpdateBodies, io \in IOOutcomes :
        update_term(term_id, body, io)

SpecUpdate == InitUpdate /\ [][NextUpdate]_vars

(* SpecList: get_all_terms over collections of 0..MaxListLen terms. *)

ListCollection(n) == [i \in 1..n |-> SeedTerm(i, IF i % 2 = 1 THEN bOracle ELSE bQuoted)]

ListSkips == {-1, 0, 1, 2, 5, 10, 20, MaxListLen - 1, MaxListLen, MaxListLen + 1}
ListLimits == {0, 1, 2, 5, 10, MaxListLen, 100, LimitMax, LimitMax + 1}

InitList == \E n \in 0..MaxListLen : InitStore(ListCollection(n), 0)

NextList == \E skip \in ListSkips, limit \in ListLimits : get_all_terms(skip, limit)

SpecList == InitList /\ [][NextList]_vars

(* SpecSearch: search_terms with every keyword of 1..MaxKeywordLen characters. *)

sDApp == <<"d", "A", "p", "p">>
bEmptyCategory == [title |-> Some(sDApp), definition |-> Some(sFeed), category |-> Some(<<>>)]
bDev == [title |-> Some(sQuoted), definition |-> Some(sOffChain), category |-> Some(sDev)]

tNoCategory == WithoutCategory(SeedTerm(1, bOracle))
tEmptyCategory == SeedTerm(2, bEmptyCategory)
tDev == SeedTerm(3, bDev)

SearchCollections ==
    {<<>>, <<tNoCategory>>, <<tDev, tEmptyCategory>>, <<tNoCategory, tEmptyCategory, tDev>>,
     <<tDev, tNoCategory, SeedTerm(5, bQuoted)>>}

KeywordChars == {"o", "R", "d", "E", "x"}
SearchKeywords == UNION {[1..n -> KeywordChars] : n \in 1..MaxKeywordLen}

InitSearch == \E data \in SearchCollections : InitStore(data, 0)

NextSearch == \E keyword \in SearchKeywords : search_terms(keyword)

SpecSearch == InitSearch /\ [][NextSearch]_vars

----------------------------------------------------------------------------
(* Claims about the life of the store: Spec and SpecReliable *)

\* A step in which create appended a term, and the term.
CreateStep == req'.op = "create_term" /\ Len(glossary') = Len(glossary) + 1
Created == glossary'[Len(glossary')]

\* C1: within one lifetime of the store, the record every create returns has
\* an id strictly greater than every id loaded at start and every id an
\* earlier create assigned, also when the highest id was deleted in between.
C1_IdsIncreaseWithinLifetime ==
    [][(CreateStep /\ ~ret'.raised)
          => /\ ret'.value = Created
             /\ \A i \in issued_life : ret'.value["id"] > i]_vars

\* create returned a term whose predecessor by id had been deleted before.
C1_Witness ==
    /\ req.op = "create_term"
    /\ ret.called /\ ~ret.raised
    /\ (ret.value["id"] - 1) \in (issued_life \ Ids(glossary))
    /\ glossary # <<>>
    /\ glossary[Len(glossary)] = ret.value

\* C2: over create, delete and restarts, no create assigns an id that an
\* earlier create had assigned, deleted since or not.
C2_IdNeverReused ==
    [][CreateStep => Created["id"] \notin issued_ever]_vars

\* C3: when the write of the file fails in create, update or delete, the
\* request is not answered as a success and the collection and the next id
\* are what they were before the request.
C3_FailedWriteLeavesStoreIntact ==
    [][(req'.op \in {"create_term", "update_term", "delete_term"} /\ ret'.raised)
          => /\ resp'.status \notin {200, 201}
             /\ glossary' = glossary
             /\ next_id' = next_id]_vars

\* The request named an id that has no record, and the store said so.
AnsweredNotFound ==
    /\ ret.called /\ ~ret.raised
    /\ \/ req.op \in {"get_term", "update_term"} /\ ret.value = None
       \/ req.op = "delete_term" /\ ret.value = FALSE

\* C5: get, update and delete of an id without a record are answered with
\* status 404 and a body {success, message, data} whose success is false.
C5_NotFoundIsFailureEnvelope ==
    AnsweredNotFound
        => /\ resp.status = 404
           /\ DOMAIN resp.body = {"success", "message", "data"}
           /\ resp.body.success = FALSE

\* C7: after requests whose writes all succeeded, loading the file again
\* gives the collection the store holds: the same terms in the same order,
\* every field equal.
C7_ReloadReproducesCollection ==
    up => /\ disk.kind # "torn"
          /\ _load_data(disk) = glossary

\* The store was started again from a file that creates, an update and a
\* delete have written, and that holds a title with a quote and a backslash.
C7_Witness ==
    /\ req.op = "lifespan"
    /\ now >= 2
    /\ \E i \in 1..Len(glossary) :
          /\ glossary[i]["title"] = sQuoted
          /\ glossary[i]["updated_at"] # glossary[i]["created_at"]
    /\ issued_ever \ Ids(glossary) # {}

\* C8: a delete that succeeds removes exactly the term with that id and keeps
\* the others in their order, get_by_id then finds nothing; a delete of an id
\* without a record returns False without raising and leaves the collection
\* and the file as they are; and an id that lost its record stays without one
\* for as long as the store lives, so every later delete of it is such a one.
C8_DeleteRemovesOnceThenNotFound ==
    [][/\ (req'.op = "delete_term")
          => LET id == req'.term_id
             IN  IF id \in Ids(glossary)
                 THEN ret'.raised \/
                      /\ ret'.value = TRUE
                      /\ id \notin Ids(glossary')
                      /\ get_by_id(glossary', id) = None
                      /\ glossary' = SelectSeq(glossary, LAMBDA term : term["id"] # id)
                      /\ disk' = JsonFile(glossary')
                 ELSE /\ ret' = Returned(FALSE)
                      /\ resp'.status = 404
                      /\ glossary' = glossary
                      /\ disk' = disk
       /\ (req'.op = "get_term" /\ req'.term_id \notin Ids(glossary))
          => ret' = Returned(None) /\ resp'.status = 404
       /\ (req'.op # "lifespan")
          => \A id \in issued_life \ Ids(glossary) : id \notin Ids(glossary')]_vars

\* A second delete of an id that was deleted returned False, with other
\* terms still in the collection.
C8_Witness ==
    /\ req.op = "delete_term"
    /\ ret = Returned(FALSE)
    /\ req.term_id \in (issued_life \ Ids(glossary))
    /\ Len(glossary) >= 2

----------------------------------------------------------------------------
(* Claims about update_term: SpecUpdate *)

\* A step in which update_term found the record and changed it, the position
\* of the record and the fields the partial update holds.
UpdateStep ==
    /\ req'.op = "update_term"
    /\ ValidUpdate(req'.body)
    /\ req'.term_id \in Ids(glossary)
Updated == IndexOf(glossary, req'.term_id)
PresentFields == DOMAIN req'.body \cap ModelFields

\* The field of a stored term holds the supplied value. The fields of a term
\* are strings and lists, never None, so no field holds a supplied null.
FieldHolds(term, k, supplied) ==
    /\ k \in DOMAIN term
    /\ ~IsNone(supplied)
    /\ term[k] = Value(supplied)

\* The record update returned is the stored one, and the response carries it.
ReturnsStored ==
    ~ret'.raised
       => /\ ret'.value = Some(glossary'[Updated])
          /\ resp'.status = 200
          /\ resp'.body.data = glossary'[Updated]

\* C4 as claimed: update replaces every field present in the partial update
\* by the value supplied for it, an explicit null included, and the returned
\* and stored record carries those values.
C4_UpdateReplacesEveryPresentField ==
    [][UpdateStep
          => /\ \A k \in PresentFields : FieldHolds(glossary'[Updated], k, req'.body[k])
             /\ ReturnsStored]_vars

\* C4 as amended: update replaces every field present with a value that is
\* not null by that value (a list wholesale, an empty list or string
\* included) and leaves a field supplied as null as it was; the returned and
\* stored record carries exactly that.
C4_UpdateReplacesNonNullFields ==
    [][UpdateStep
          => /\ \A k \in PresentFields :
                   IF IsNone(req'.body[k])
                   THEN /\ (k \in DOMAIN glossary'[Updated]) = (k \in DOMAIN glossary[Updated])
                        /\ k \in DOMAIN glossary[Updated]
                              => glossary'[Updated][k] = glossary[Updated][k]
                   ELSE FieldHolds(glossary'[Updated], k, req'.body[k])
             /\ ReturnsStored]_vars

\* An update with a null title and an empty examples list was answered: the
\* title is the old one, the examples, which were not empty, are now empty.
C4_Witness ==
    /\ req.op = "update_term"
    /\ req.body = uNullTitle
    /\ ret.called /\ ~ret.raised /\ ~IsNone(ret.value)
    /\ Value(ret.value)["title"] = sQuoted
    /\ Value(ret.value)["examples"] = <<>>
    /\ SeedTerm(1, bQuoted)["examples"] # <<>>
    /\ Value(ret.value) \in {glossary[i] : i \in 1..Len(glossary)}

\* C6: update of an existing record changes nothing but the fields present
\* in the partial update and the record's updated_at: id, created_at and every
\* absent field keep their values, no key appears that the update did not
\* supply, the other records, the order and the next id are unchanged.
C6_UpdateChangesOnlyPresentFields ==
    [][UpdateStep
          => LET old == glossary[Updated]
                 new == glossary'[Updated]
             IN  /\ Len(glossary') = Len(glossary)
                 /\ \A j \in 1..Len(glossary) : j # Updated => glossary'[j] = glossary[j]
                 /\ DOMAIN new \subseteq DOMAIN old \cup PresentFields
                 /\ \A k \in DOMAIN old \ (PresentFields \cup {"updated_at"}) :
                       k \in DOMAIN new /\ new[k] = old[k]
                 /\ new["id"] = old["id"]
                 /\ new["created_at"] = old["created_at"]
                 /\ next_id' = next_id]_vars

\* An update with an empty body was answered for a record of a collection of
\* several: only its updated_at differs from the record as created.
C6_Witness ==
    /\ req.op = "update_term"
    /\ req.body = uEmpty
    /\ ret.called /\ ~ret.raised /\ ~IsNone(ret.value)
    /\ Len(glossary) >= 2
    /\ Value(ret.value)["updated_at"] # Value(ret.value)["created_at"]
    /\ Value(ret.value)["id"] = req.term_id

----------------------------------------------------------------------------
(* Claim about get_all_terms: SpecList *)

\* C9: for n records, skip >= 0 and limit in 1..1000, the list response
\* holds total = n, the skip and limit applied, and as items the run of the
\* collection from offset skip of length min(limit, max(0, n - skip)); the
\* collection is not modified.
C9_ListReturnsPage ==
    [][(req'.op = "get_all_terms" /\ req'.skip >= 0
          /\ req'.limit >= 1 /\ req'.limit <= 1000)
          => LET n == Len(glossary)
                 data == resp'.body.data
             IN  /\ resp'.status = 200
                 /\ resp'.body.success = TRUE
                 /\ data.total = n
                 /\ data.skip = req'.skip
                 /\ data.limit = req'.limit
                 /\ Len(data.items) = Min(req'.limit, Max(0, n - req'.skip))
                 /\ \A i \in 1..Len(data.items) : data.items[i] = glossary[req'.skip + i]
                 /\ glossary' = glossary
                 /\ disk' = disk]_vars

\* skip=20, limit=10 over 25 records was answered with the last 5.
C9_Witness ==
    /\ req.op = "get_all_terms"
    /\ Len(glossary) = 25
    /\ req.skip = 20 /\ req.limit = 10
    /\ Len(resp.body.data.items) = 5
    /\ resp.body.data.items[5] = glossary[25]

----------------------------------------------------------------------------
(* Claim about search_terms: SpecSearch *)

\* Two characters are equal, or the two cases of one letter.
CasePairs == {<<LowerLetters[i], UpperLetters[i]>> : i \in 1..Len(UpperLetters)}
SameIgnoringCase(c1, c2) == c1 = c2 \/ <<c1, c2>> \in CasePairs \/ <<c2, c1>> \in CasePairs

\* text contains keyword as a substring when letter case is ignored.
ContainsIgnoringCase(text, keyword) ==
    \E offset \in 0..(Len(text) - Len(keyword)) :
        \A j \in 1..Len(keyword) : SameIgnoringCase(text[offset + j], keyword[j])

ShouldMatch(term, keyword) ==
    \E k \in {"title", "definition", "category"} \cap DOMAIN term :
        ContainsIgnoringCase(term[k], keyword)

\* C10: for a keyword that is not empty, search returns exactly the records
\* whose title, definition or category contains it with case ignored, in the
\* order of the collection (a record without category or with an empty one
\* does not match through it); with no match the result is the empty
\* sequence, the answer is a success, and the collection is not modified.
C10_SearchReturnsMatches ==
    [][req'.op = "search_terms"
          => /\ ret' = Returned(SelectSeq(glossary,
                                          LAMBDA term : ShouldMatch(term, req'.keyword)))
             /\ resp'.status = 200
             /\ resp'.body.success = TRUE
             /\ resp'.body.data = ret'.value
             /\ glossary' = glossary
             /\ disk' = disk]_vars

\* A keyword in another case than the text matched one record through its
\* category alone, beside a record without category and one with an empty one.
C10_Witness ==
    /\ req.op = "search_terms"
    /\ req.keyword = <<"d", "E">>
    /\ glossary = <<tNoCategory, tEmptyCategory, tDev>>
    /\ ret.value = <<tDev>>
    /\ ~ContainsIgnoringCase(tDev["title"], req.keyword)
    /\ ~ContainsIgnoringCase(tDev["definition"], req.keyword)

====
